---- MODULE Spec2Model ----
(***************************************************************************)
(* The outbound packet queue of carllerche/utp (src/src/out_queue.rs):     *)
(* OutQueue, its State, its Entry records and the transmit cursor Next.    *)
(*                                                                         *)
(* Time is the monotonic clock in milliseconds since created_at.  The      *)
(* header fields connection_id, timestamp, timestamp_diff and wnd_size are *)
(* stamped from values no operation of the queue reads back; they are     *)
(* left out, ack_nr stands for the stamping that next() does.              *)
(* Option<T> is a sequence of length 0 (None) or 1 (Some).                  *)
(***************************************************************************)
EXTENDS Integers, Sequences, FiniteSets, TLC

\* ---------------------------------------------------------------- constants

\* const MAX_PACKET_SIZE: usize = 1_400
MAX_PACKET_SIZE == 1400

\* packet::HEADER_LEN, the fixed size of the uTP packet header
HEADER_LEN == 20

\* ::MAX_WINDOW_SIZE, the protocol's maximum window (initial peer_window)
MAX_WINDOW_SIZE == 65536

\* const MAX_DATA_SIZE: usize = MAX_PACKET_SIZE - HEADER_LEN
MAX_DATA_SIZE == MAX_PACKET_SIZE - HEADER_LEN

\* u16 arithmetic wraps at this modulus
U16 == 65536

\* ------------------------------------------------------------------- bounds

\* most packets pushed (directly or by write) in one behaviour
MaxPushes == 3

\* the clock no longer advances once it has reached this (milliseconds)
MaxTime == 100

\* ------------------------------------------------------------------ helpers

None == << >>

Some(v) == << v >>

unwrap_or(o, d) == IF o = None THEN d ELSE o[1]

Min(a, b) == IF a <= b THEN a ELSE b

Abs(x) == IF x < 0 THEN 0 - x ELSE x

\* Rust's integer division truncates towards zero
TruncDiv(a, b) == IF a >= 0 THEN a \div b ELSE 0 - ((0 - a) \div b)

\* u16::wrapping_sub
wrapping_sub(a, b) == (a - b) % U16

\* u16::saturating_add, what wrapping_add is mistaken for
saturating_add(a, b) == IF a + b >= U16 THEN U16 - 1 ELSE a + b

\* u16::wrapping_add
wrapping_add(a, b) == (a + b) % U16

\* fn as_ms(duration) -> u64, of a duration given in milliseconds
as_ms(ms) ==
    IF ms \div 1000 > 30 THEN 30000 ELSE ((ms \div 1000) * 1000) + (ms % 1000)

\* -------------------------------------------------------------------- state

VARIABLES
    packets,        \* OutQueue.packets: VecDeque<Entry>, front first
    seq_nr,         \* State.seq_nr: sequence number for the next packet
    local_ack,      \* State.local_ack: Option<u16>
    last_ack,       \* State.last_ack: Option<u16>
    peer_window,    \* State.peer_window
    max_window,     \* OutQueue.max_window
    rtt,            \* OutQueue.rtt
    rtt_variance,   \* OutQueue.rtt_variance
    now,            \* the monotonic clock, ms since State.created_at
    cursor,         \* the live Next<'a> borrowed from the queue, if any
    input,          \* the application's byte stream, offered through write
    consumed,       \* how many bytes of input write has accepted
    enqueued,       \* history: payload bytes write has pushed, in order
    init_seq_nr,    \* history: seq_nr in the initial state
    pushes,         \* history: number of push calls since the initial state
    decision,       \* history: what the latest next() returned, and what
                    \* became of it; Stale once another call intervened
    state_seq       \* history: << s >> once a pure ack carrying s is committed,
                    \* << s, t >> once the push after it was assigned t

vars == << packets, seq_nr, local_ack, last_ack, peer_window, max_window,
           rtt, rtt_variance, now, cursor, input, consumed, enqueued,
           init_seq_nr, pushes, decision, state_seq >>

\* ------------------------------------------------------------------ packets

\* Packet, with the header fields the queue reads or the driver observes
Packet(ty, payload) ==
    [ty |-> ty, seq_nr |-> 0, ack_nr |-> 0, payload |-> payload]

\* Packet::data(&src[..packet_len])
data(payload) == Packet("Data", payload)

\* Packet::state()
state == Packet("State", << >>)

\* the packet types a caller hands to push
PushTypes == {"Syn"}

\* ---------------------------------------------------------- OutQueue::push

\* the assert, were it left out
AssertNothing(ty) == TRUE

\* assert!(packet.ty() != packet::Type::State)
AssertNotState(ty) == ty # "State"

\* the increment done with saturating_add
NextSeqNrSaturating(s) == saturating_add(s, 1)

\* self.state.seq_nr.wrapping_add(1)
NextSeqNr(s) == wrapping_add(s, 1)

\* the Entry appended, were the packet given the incremented number
PushEntryNextSeq(packet, s) ==
    [packet       |-> [packet EXCEPT !.seq_nr = wrapping_add(s, 1)],
     num_sends    |-> 0,
     last_sent_at |-> None,
     acked        |-> FALSE]

\* the Entry push appends for `packet` when seq_nr is s
PushEntry(packet, s) ==
    [packet       |-> [packet EXCEPT !.seq_nr = s],
     num_sends    |-> 0,
     last_sent_at |-> None,
     acked        |-> FALSE]

\* push applied to the pair (queue, seq_nr)
Pushed(qs, packet) ==
    [packets |-> Append(qs.packets, PushEntry(packet, qs.seq_nr)),
     seq_nr  |-> NextSeqNr(qs.seq_nr)]

\* ------------------------------------------------------ OutQueue::in_flight

in_flight(q) ==
    Cardinality({i \in 1..Len(q) : q[i].last_sent_at # None /\ ~q[i].acked})

\* ------------------------------------------------- OutQueue::set_their_ack

\* the closure deciding `pop` for the front entry
Pop(entry, ack_nr) ==
    LET s     == entry.packet.seq_nr
        lower == wrapping_sub(ack_nr, ack_nr)
    IN  IF lower < ack_nr
        THEN s > lower /\ s <= ack_nr
        ELSE s > lower \/ s <= ack_nr

\* the update for one sample, were rtt moved first and the deviation
\* taken from the moved rtt
RttUpdateRttFirst(est, packet_rtt) ==
    LET r     == IF est.rtt >= packet_rtt
                 THEN est.rtt - (est.rtt - packet_rtt) \div 8
                 ELSE est.rtt + (packet_rtt - est.rtt) \div 8
        delta == Abs(r - packet_rtt)
    IN  [rtt_variance |-> est.rtt_variance
                            + TruncDiv(delta - est.rtt_variance, 4),
         rtt          |-> r]

\* the rtt and rtt_variance update for one sample
RttUpdate(est, packet_rtt) ==
    LET delta == Abs(est.rtt - packet_rtt)
    IN  [rtt_variance |-> est.rtt_variance
                            + TruncDiv(delta - est.rtt_variance, 4),
         rtt          |-> IF est.rtt >= packet_rtt
                          THEN est.rtt - (est.rtt - packet_rtt) \div 8
                          ELSE est.rtt + (packet_rtt - est.rtt) \div 8]

\* whether a popped entry feeds the estimator
Sampled(p) == p.num_sends = 1

\* one turn of the loop, were every popped entry to feed the estimator, an
\* entry never sent with the time since the queue was created
AckStepSampleAll(q, st, ack_nr, t) ==
    IF st.done \/ st.n = Len(q)
    THEN [st EXCEPT !.done = TRUE]
    ELSE LET p == q[st.n + 1]
             e == RttUpdate(st, as_ms(t - unwrap_or(p.last_sent_at, 0)))
         IN  IF ~Pop(p, ack_nr)
             THEN [st EXCEPT !.done = TRUE]
             ELSE [st EXCEPT !.n = @ + 1, !.rtt = e.rtt,
                             !.rtt_variance = e.rtt_variance]

\* one turn of the loop: st.n entries are popped so far, so the front of
\* the queue is q[st.n + 1], and st.done says the loop has returned
AckStep(q, st, ack_nr, t) ==
    IF st.done \/ st.n = Len(q)
    THEN [st EXCEPT !.done = TRUE]
    ELSE LET p == q[st.n + 1]
         IN  IF ~Pop(p, ack_nr)
             THEN [st EXCEPT !.done = TRUE]
             ELSE IF Sampled(p)
                  THEN LET e == RttUpdate(st, as_ms(t - p.last_sent_at[1]))
                       IN  [st EXCEPT !.n = @ + 1, !.rtt = e.rtt,
                                      !.rtt_variance = e.rtt_variance]
                  ELSE [st EXCEPT !.n = @ + 1]

\* 2^k turns of the loop from st: 2^(k-1) turns, then 2^(k-1) turns from
\* the state these end in, so that the evaluation nests only k deep on a
\* long queue
RECURSIVE AckLoop(_, _, _, _, _)
AckLoop(q, k, st, ack_nr, t) ==
    IF st.done THEN st
    ELSE IF k = 0 THEN AckStep(q, st, ack_nr, t)
    ELSE CHOOSE right \in
           {AckLoop(q, k - 1, left, ack_nr, t) :
              left \in {AckLoop(q, k - 1, st, ack_nr, t)}} : TRUE

\* the least k with 2^k > n: 2^k turns take the loop over n entries to its
\* return
Turns(n) == CHOOSE k \in 0..30 : 2^k > n /\ \A j \in 0..(k - 1) : 2^j <= n

\* set_their_ack(ack_nr) at time t: entries popped and the new estimator
TheirAck(q, r, v, ack_nr, t) ==
    CHOOSE st \in
      {AckLoop(q, k, [n |-> 0, rtt |-> r, rtt_variance |-> v, done |-> FALSE],
               ack_nr, t) : k \in {Turns(Len(q))}} : TRUE

\* ------------------------------------------------ OutQueue::socket_timeout

\* the timeout, were it the bare sum
socket_timeout_sum(r, v) == r + v

\* socket_timeout() in milliseconds, for rtt r and rtt_variance v
socket_timeout(r, v) ==
    LET timeout == r + v
    IN  IF timeout > 500 THEN timeout ELSE 500

\* ---------------------------------------------------------- OutQueue::next

\* indices of the entries the `for` loop does not `continue` past
Unsent(q) == {i \in 1..Len(q) : q[i].last_sent_at = None}

\* the entry returned, were the queue searched from the back
NewestUnsent(q) ==
    IF Unsent(q) = {} THEN 0
    ELSE CHOOSE i \in Unsent(q) : \A j \in Unsent(q) : i >= j

\* the entry the `for` loop returns: the first unsent one, 0 when none
FirstUnsent(q) ==
    IF Unsent(q) = {} THEN 0
    ELSE CHOOSE i \in Unsent(q) : \A j \in Unsent(q) : i <= j

\* next() looking at the owed ack before the queue
NextItemAckFirst(q, la, lst) ==
    IF la # lst THEN "State"
    ELSE IF FirstUnsent(q) # 0 THEN "Entry"
    ELSE "None"

\* which Item next() returns
NextItem(q, la, lst) ==
    IF FirstUnsent(q) # 0 THEN "Entry"
    ELSE IF la # lst THEN "State"
    ELSE "None"

\* the stamping of a packet, of which set_ack_nr(ack) is kept
Stamp(packet, ack) == [packet EXCEPT !.ack_nr = ack]

\* the pure ack carrying the sequence number of the last pushed packet
StatePacketLastSeq(s, ack) ==
    Stamp([state EXCEPT !.seq_nr = wrapping_sub(s, 1)], ack)

\* the packet of Item::State: Packet::state() with set_seq_nr and stamping
StatePacket(s, ack) == Stamp([state EXCEPT !.seq_nr = s], ack)

\* sent() counting the send without recording its time
SentEntryNoStamp(e, t) == [e EXCEPT !.num_sends = @ + 1]

\* what sent() does to the entry of Item::Entry, at time t
SentEntry(e, t) ==
    [e EXCEPT !.num_sends = @ + 1, !.last_sent_at = Some(t)]

\* no Next<'a> is alive: the queue is not borrowed
\* last_ack after sent(), were it left as it is
SentLastAckKept(la, lst) == lst

\* self.state.last_ack = self.state.local_ack
SentLastAck(la, lst) == la

Idle == [kind |-> "Idle", idx |-> 0, packet |-> state]

\* the thread has panicked: no call follows
Panicked == [kind |-> "Panicked", idx |-> 0, packet |-> state]

\* --------------------------------------------------------- OutQueue::write

\* the packet length, were no room kept for the header
PacketLenNoHeader(src, rem) == Min(MAX_PACKET_SIZE, Min(Len(src), rem))

\* cmp::min(MAX_PACKET_SIZE, cmp::min(src.len(), rem - HEADER_LEN))
PacketLen(src, rem) == Min(MAX_PACKET_SIZE, Min(Len(src), rem - HEADER_LEN))

\* the payload, were its last byte left out
ChunkShort(src, packet_len) == SubSeq(src, 1, packet_len - 1)

\* &src[..packet_len]
Chunk(src, packet_len) == SubSeq(src, 1, packet_len)

\* len += packet_len, were the header counted as consumed input as well
AddLenWithHeader(len, packet_len) == len + packet_len + HEADER_LEN

\* len += packet_len
AddLen(len, packet_len) == len + packet_len

\* the while loop: the payloads pushed, in order, and the value of len
RECURSIVE WriteLoop(_, _, _, _)
WriteLoop(src, rem, len, out) ==
    IF rem > HEADER_LEN
    THEN LET packet_len == PacketLen(src, rem)
         IN  IF packet_len = 0
             THEN [len |-> len, out |-> out]
             ELSE WriteLoop(SubSeq(src, packet_len + 1, Len(src)),
                            rem - (packet_len + HEADER_LEN),
                            AddLen(len, packet_len),
                            Append(out, Chunk(src, packet_len)))
    ELSE [len |-> len, out |-> out]

\* io::Result<usize>
Ok(n) == [ok |-> TRUE, n |-> n]

WouldBlock == [ok |-> FALSE, n |-> 0]

\* write(src): its result and the payloads it pushes
Written(q, src, mw, pw) ==
    IF Len(src) = 0 THEN [ret |-> Ok(0), out |-> << >>]
    ELSE LET cur_window == in_flight(q)
             max        == Min(mw, pw)
         IN  IF cur_window >= max
             THEN [ret |-> WouldBlock, out |-> << >>]
             ELSE LET w == WriteLoop(src, max - cur_window, 0, << >>)
                  IN  [ret |-> Ok(w.len), out |-> w.out]

\* self.push(packet) for each payload of `out`, in order
RECURSIVE PushAll(_, _)
PushAll(qs, out) ==
    IF out = << >> THEN qs
    ELSE PushAll(Pushed(qs, data(Head(out))), Tail(out))

\* the payloads of q[from..], concatenated in queue order
RECURSIVE Payloads(_, _)
Payloads(q, from) ==
    IF from > Len(q) THEN << >>
    ELSE q[from].packet.payload \o Payloads(q, from + 1)

\* -------------------------------------------------------------- environment

\* initial sequence numbers handed to OutQueue::new
InitSeqNrs == {1, U16 - 1}

\* initial local_ack handed to OutQueue::new
InitAcks == {None, Some(122)}

\* values the receive side hands to set_local_ack
LocalAcks == {123}

\* how far the clock moves between two calls (milliseconds)
TickSteps == {100}

\* the byte stream the application writes in the small specification
SmallInput == << 7, 8 >>

\* the part of the input write has not accepted yet
Rest == SubSeq(input, consumed + 1, Len(input))

\* how many bytes of Rest the application offers to one write
WriteLens == {0, 1, Len(Rest)} \cap (0..Len(Rest))

\* ack numbers a packet of the peer may carry: around the queue's ends
\* and the ends of the sequence space
AckNrs ==
    {0, 1, U16 - 1}
    \cup (IF packets = << >> THEN {}
          ELSE {packets[1].packet.seq_nr,
                wrapping_sub(packets[1].packet.seq_nr, 1),
                packets[Len(packets)].packet.seq_nr})

Stale ==
    [kind |-> "Stale", seq_nr |-> 0, ack_nr |-> 0, then |-> "stale",
     again |-> FALSE]

\* state_seq after a call that pushed an entry with sequence number t
AfterPush(ss, t) == IF Len(ss) = 1 THEN << ss[1], t >> ELSE None

\* --------------------------------------------------------------------- Init

\* OutQueue::new(connection_id, s, la), and an application holding `bytes`
new(s, la, bytes) ==
    /\ packets = << >>
    /\ seq_nr = s
    /\ local_ack = la
    /\ last_ack = None
    /\ peer_window = MAX_WINDOW_SIZE
    /\ max_window = MAX_PACKET_SIZE
    /\ rtt = 0
    /\ rtt_variance = 0
    /\ now = 0
    /\ cursor = Idle
    /\ input = bytes
    /\ consumed = 0
    /\ enqueued = << >>
    /\ init_seq_nr = s
    /\ pushes = 0
    /\ decision = Stale
    /\ state_seq = None

Init == \E s \in InitSeqNrs, la \in InitAcks : new(s, la, SmallInput)

\* ------------------------------------------------------------------ actions

hist == << input, init_seq_nr >>

windows == << peer_window, max_window >>

estimator == << rtt, rtt_variance >>

\* time passes between two calls
tick ==
    /\ now < MaxTime
    /\ \E d \in TickSteps : now' = now + d
    /\ UNCHANGED << packets, seq_nr, local_ack, last_ack, windows, estimator,
                    cursor, consumed, enqueued, pushes, decision, state_seq,
                    hist >>

\* OutQueue::push(packet), packet being of type ty: the assert! fails and
\* the call panics before anything is touched, or the packet is enqueued
push(ty) ==
    /\ cursor = Idle
    /\ pushes < MaxPushes
    /\ IF ~AssertNotState(ty)
       THEN /\ cursor' = Panicked
            /\ UNCHANGED << packets, seq_nr, pushes, state_seq, decision >>
       ELSE /\ LET qs == Pushed([packets |-> packets, seq_nr |-> seq_nr],
                               Packet(ty, << >>))
               IN  /\ packets' = qs.packets
                   /\ seq_nr' = qs.seq_nr
            /\ pushes' = pushes + 1
            /\ state_seq' = AfterPush(state_seq,
                                      packets'[Len(packets')].packet.seq_nr)
            /\ decision' = Stale
            /\ UNCHANGED cursor
    /\ UNCHANGED << local_ack, last_ack, windows, estimator, now, consumed,
                    enqueued, hist >>

\* OutQueue::write(src), src being the first k bytes of Rest; the
\* application advances past the bytes write reports as consumed
write(k) ==
    /\ cursor = Idle
    /\ \E w \in {Written(packets, SubSeq(Rest, 1, k), max_window,
                         peer_window)} :
         \E qs \in {PushAll([packets |-> packets, seq_nr |-> seq_nr],
                            w.out)} :
           /\ pushes + Len(w.out) <= MaxPushes
           /\ packets' = qs.packets
           /\ seq_nr' = qs.seq_nr
           /\ pushes' = pushes + Len(w.out)
           /\ consumed' = consumed + w.ret.n
           /\ enqueued' = enqueued \o Payloads(qs.packets, Len(packets) + 1)
           /\ state_seq' = IF w.out = << >> THEN state_seq
                          ELSE AfterPush(state_seq,
                                 qs.packets[Len(packets) + 1].packet.seq_nr)
    /\ decision' = Stale
    /\ UNCHANGED << local_ack, last_ack, windows, estimator, now, cursor,
                    hist >>

\* OutQueue::next()
next ==
    /\ cursor = Idle
    /\ LET ack  == unwrap_or(local_ack, 0)
           item == NextItem(packets, local_ack, last_ack)
           i    == FirstUnsent(packets)
       IN  /\ packets' = IF item = "Entry"
                         THEN [packets EXCEPT ![i].packet = Stamp(@, ack)]
                         ELSE packets
           /\ cursor' = IF item = "Entry"
                        THEN [kind |-> "Entry", idx |-> i,
                              packet |-> packets'[i].packet]
                        ELSE IF item = "State"
                        THEN [kind |-> "State", idx |-> 0,
                              packet |-> StatePacket(seq_nr, ack)]
                        ELSE Idle
           /\ decision' = IF item = "None"
                          THEN [kind |-> "None", seq_nr |-> 0, ack_nr |-> 0,
                                then |-> "dropped",
                                again |-> decision.then = "dropped"]
                          ELSE [kind   |-> item,
                                seq_nr |-> cursor'.packet.seq_nr,
                                ack_nr |-> cursor'.packet.ack_nr,
                                then   |-> "held",
                                again  |-> decision.then = "dropped"]
    /\ UNCHANGED << seq_nr, local_ack, last_ack, windows, estimator, now,
                    consumed, enqueued, pushes, state_seq, hist >>

\* Next::sent(self)
sent ==
    /\ cursor.kind \in {"Entry", "State"}
    /\ packets' = IF cursor.kind = "Entry"
                  THEN [packets EXCEPT ![cursor.idx] = SentEntry(@, now)]
                  ELSE packets
    /\ last_ack' = SentLastAck(local_ack, last_ack)
    /\ cursor' = Idle
    /\ state_seq' = IF cursor.kind = "State"
                    THEN Some(cursor.packet.seq_nr) ELSE state_seq
    /\ decision' = [decision EXCEPT !.then = "sent"]
    /\ UNCHANGED << seq_nr, local_ack, windows, estimator, now, consumed,
                    enqueued, pushes, hist >>

\* the Next<'a> goes out of scope without sent(): the send failed
drop ==
    /\ cursor.kind \in {"Entry", "State"}
    /\ cursor' = Idle
    /\ decision' = [decision EXCEPT !.then = "dropped"]
    /\ UNCHANGED << packets, seq_nr, local_ack, last_ack, windows, estimator,
                    now, consumed, enqueued, pushes, state_seq, hist >>

\* OutQueue::set_their_ack(ack_nr)
set_their_ack(ack_nr) ==
    /\ cursor = Idle
    /\ \E st \in {TheirAck(packets, rtt, rtt_variance, ack_nr, now)} :
         /\ packets' = SubSeq(packets, st.n + 1, Len(packets))
         /\ rtt' = st.rtt
         /\ rtt_variance' = st.rtt_variance
    /\ decision' = Stale
    /\ UNCHANGED << seq_nr, local_ack, last_ack, windows, now, cursor,
                    consumed, enqueued, pushes, state_seq, hist >>

\* OutQueue::set_local_ack(val)
set_local_ack(val) ==
    /\ cursor = Idle
    /\ local_ack' = Some(val)
    /\ decision' = Stale
    /\ UNCHANGED << packets, seq_nr, last_ack, windows, estimator, now,
                    cursor, consumed, enqueued, pushes, state_seq, hist >>

Next ==
    \/ tick
    \/ \E ty \in PushTypes : push(ty)
    \/ \E k \in WriteLens : write(k)
    \/ next
    \/ sent
    \/ drop
    \/ \E ack_nr \in AckNrs : set_their_ack(ack_nr)
    \/ \E val \in LocalAcks : set_local_ack(val)

Spec == Init /\ [][Next]_vars

\* ------------------------------------------------------- a filled window

\* a byte stream longer than one window: write takes it in two parts
BigInput == [i \in 1..(MAX_PACKET_SIZE + 1) |-> i % 256]

\* the byte stream the application still holds when the window is filled
WindowInput == << 7, 8, 9, 10 >>

\* numbers of entries in flight next to the limits of write: two short of
\* the point where no payload fits behind a header, and the whole of
\* max_window
Fills == {MAX_DATA_SIZE - 2, MAX_PACKET_SIZE}

\* the entry that write(<< 1 >>), next() and sent() leave for sequence
\* number s on a queue with no local_ack, all at time 0
FilledEntry(s) ==
    LET e == PushEntry(data(<< 1 >>), s)
    IN  SentEntry([e EXCEPT !.packet = Stamp(@, unwrap_or(None, 0))], 0)

\* the queue constructed with seq_nr s after n one-byte writes, each entry
\* sent: write does not count unsent entries, so the application gets n
\* entries in flight by writing ahead of the driver's sends
Filled(s, n, bytes) ==
    /\ packets = [i \in 1..n |-> FilledEntry(wrapping_add(s, i - 1))]
    /\ seq_nr = (s + n) % U16
    /\ local_ack = None
    /\ last_ack = None
    /\ peer_window = MAX_WINDOW_SIZE
    /\ max_window = MAX_PACKET_SIZE
    /\ rtt = 0
    /\ rtt_variance = 0
    /\ now = 0
    /\ cursor = Idle
    /\ input = bytes
    /\ consumed = 0
    /\ enqueued = << >>
    /\ init_seq_nr = seq_nr
    /\ pushes = 0
    /\ decision = Stale
    /\ state_seq = None

InitWindow ==
    \/ \E s \in InitSeqNrs : new(s, None, BigInput)
    \/ \E s \in InitSeqNrs, n \in Fills : Filled(s, n, WindowInput)

\* the ack number of the peer once every packet sent so far has arrived:
\* the sequence number of the newest sent entry
PeerAckNr ==
    LET sentIdx == {i \in 1..Len(packets) : packets[i].num_sends > 0}
        newest  == CHOOSE i \in sentIdx :
                     \A j \in (i + 1)..Len(packets) : packets[j].num_sends = 0
    IN  packets[newest].packet.seq_nr

\* the peer's cumulative ack arrives and is applied
peer_ack ==
    /\ {i \in 1..Len(packets) : packets[i].num_sends > 0} # {}
    /\ \E ack_nr \in {PeerAckNr} : set_their_ack(ack_nr)

NextWindow ==
    \/ \E k \in WriteLens : write(k)
    \/ next
    \/ sent
    \/ peer_ack

\* the application keeps writing, the driver keeps asking for the next
\* packet and sending it, the peer's acks keep arriving
WindowSpec ==
    /\ InitWindow
    /\ [][NextWindow]_vars
    /\ WF_vars(\E k \in WriteLens : write(k))
    /\ WF_vars(next)
    /\ WF_vars(sent)
    /\ WF_vars(peer_ack)

\* ------------------------------------------------------ a slow round trip

\* the pauses of the driver: half a second over, and a second over, the 30
\* seconds as_ms limits a sample to
LongSteps == {30500, 31000}

\* the driver pauses only while the clock is below MaxClock
MaxClock == 31000

\* a long time passes between two calls
sleep ==
    /\ now < MaxClock
    /\ \E d \in LongSteps : now' = now + d
    /\ UNCHANGED << packets, seq_nr, local_ack, last_ack, windows, estimator,
                    cursor, consumed, enqueued, pushes, decision, state_seq,
                    hist >>

InitClock == \E s \in InitSeqNrs : new(s, None, SmallInput)

NextClock ==
    \/ sleep
    \/ \E ty \in PushTypes : push(ty)
    \/ next
    \/ sent
    \/ \E ack_nr \in AckNrs : set_their_ack(ack_nr)

ClockSpec == InitClock /\ [][NextClock]_vars

\* --------------------------------------------------- a caller's mistake

\* the packet types a caller hands to push, the Ack-only type among them
AnyTypes == {"Syn", "State"}

NextFatal ==
    \/ \E ty \in AnyTypes : push(ty)
    \/ \E k \in WriteLens : write(k)
    \/ next
    \/ sent
    \/ \E val \in LocalAcks : set_local_ack(val)

FatalSpec == Init /\ [][NextFatal]_vars

\* ------------------------------------------------------------------- claims

\* s is at or before ack_nr in 16-bit wraparound order
Covers(ack_nr, s) == wrapping_sub(ack_nr, s) < U16 \div 2

\* a is a suffix of b
IsSuffix(a, b) ==
    /\ Len(a) <= Len(b)
    /\ a = SubSeq(b, Len(b) - Len(a) + 1, Len(b))

\* sequence numbers of the entries of q that have been sent
SentSeqNrs(q) ==
    {q[i].packet.seq_nr : i \in {j \in 1..Len(q) : q[j].num_sends > 0}}

\* the send bookkeeping of the queue: which packets it holds, in which
\* order, and what is recorded of their sends
Bookkeeping(q) ==
    [i \in 1..Len(q) |->
        [ty |-> q[i].packet.ty, seq_nr |-> q[i].packet.seq_nr,
         payload |-> q[i].packet.payload, num_sends |-> q[i].num_sends,
         last_sent_at |-> q[i].last_sent_at, acked |-> q[i].acked]]

\* two results of next() are the same decision
SameDecision(d, e) ==
    d.kind = e.kind /\ d.seq_nr = e.seq_nr /\ d.ack_nr = e.ack_nr

\* C1: the k-th pushed packet is assigned sequence number
\* (initial seq_nr + k - 1) mod 65536: every step that pushes packets
\* (push, or write through push) gives them the numbers that follow the
\* pushes-th, wrapping from 65535 to 0.
C1_PushSequential ==
    [][pushes' > pushes =>
         \A j \in 1..(pushes' - pushes) :
            packets'[Len(packets) + j].packet.seq_nr
              = (init_seq_nr + pushes + j - 1) % U16]_vars

\* C1 witness: two packets pushed one after the other were assigned 65535
\* and then 0.
C1_Witness ==
    \E i \in 1..(Len(packets) - 1) :
       /\ packets[i].packet.seq_nr = U16 - 1
       /\ packets[i + 1].packet.seq_nr = 0

\* C2: set_their_ack(ack_nr) leaves a suffix of the queue, leaves the queue
\* unchanged when ack_nr does not cover the sequence number of the front
\* entry, and no other operation removes an entry.
C2_PrefixOnly ==
    [][/\ \A a \in AckNrs :
            set_their_ack(a) =>
              /\ IsSuffix(packets', packets)
              /\ (packets # << >> /\ ~Covers(a, packets[1].packet.seq_nr))
                   => packets' = packets
       /\ (~ \E a \in AckNrs : set_their_ack(a))
            => Len(packets') >= Len(packets)]_vars

\* C3: set_their_ack(ack_nr), ack_nr being the sequence number of a sent
\* entry, retires every front entry at or before ack_nr in wraparound
\* order: the entry left at the front, if any, is not covered by ack_nr.
C3_RetiresCovered ==
    [][\A a \in AckNrs \cap SentSeqNrs(packets) :
          set_their_ack(a) =>
            \/ packets' = << >>
            \/ ~Covers(a, packets'[1].packet.seq_nr)]_vars

\* C4: next() returns a cursor on the oldest never-sent entry if there is
\* one; otherwise a synthesized Ack-only packet, not enqueued, if local_ack
\* differs from last_ack; otherwise nothing.
C4_NextDecision ==
    [][next =>
         LET never == {i \in 1..Len(packets) : packets[i].num_sends = 0}
         IN  /\ never # {} =>
                  /\ cursor'.kind = "Entry"
                  /\ cursor'.idx \in never
                  /\ \A j \in never : cursor'.idx <= j
                  /\ cursor'.packet = packets'[cursor'.idx].packet
             /\ (never = {} /\ local_ack # last_ack) =>
                  /\ cursor'.kind = "State"
                  /\ cursor'.packet.ty = "State"
                  /\ packets' = packets
             /\ (never = {} /\ local_ack = last_ack) =>
                  /\ cursor' = Idle
                  /\ packets' = packets]_vars

\* C4 witness: next() has returned the oldest unsent entry, which is not
\* the front of the queue, while an ack was owed.
C4_Witness ==
    /\ cursor.kind = "Entry"
    /\ cursor.idx > 1
    /\ local_ack # last_ack

\* C5: next() and dropping its cursor without sent() leave the send
\* bookkeeping unchanged; next() called again after that returns the same
\* decision; next() called after sent() returns a different decision.
C5_NextRepeats ==
    [][/\ (next \/ drop) =>
            /\ Bookkeeping(packets') = Bookkeeping(packets)
            /\ UNCHANGED << seq_nr, local_ack, last_ack, rtt, rtt_variance >>
       /\ (next /\ decision.then = "dropped")
            => SameDecision(decision', decision)
       /\ (next /\ decision.then = "sent")
            => ~SameDecision(decision', decision)]_vars

\* C5 witness: next() returned a queue entry again after the cursor of the
\* previous call was dropped without sent().
C5_Witness == decision.again /\ decision.kind = "Entry"

\* C6 as stated: a committed pure ack carrying s leaves seq_nr at s + 1
\* and the next pushed packet is assigned s + 1.
C6_AckConsumesSeqNr ==
    /\ Len(state_seq) = 1 => seq_nr = wrapping_add(state_seq[1], 1)
    /\ Len(state_seq) = 2 => state_seq[2] = wrapping_add(state_seq[1], 1)

\* C6 amended: a committed pure ack carrying s leaves seq_nr at s, and the
\* next pushed packet is assigned s as well.
C6_AckKeepsSeqNr ==
    /\ Len(state_seq) = 1 => seq_nr = state_seq[1]
    /\ Len(state_seq) = 2 => state_seq[2] = state_seq[1]

\* C6 witness: a packet has been pushed after a committed pure ack.
C6_Witness == Len(state_seq) = 2

\* the payload bytes of the entries q[lo..hi] that have been sent, summed by
\* halves
RECURSIVE SentBytes(_, _, _)
SentBytes(q, lo, hi) ==
    IF lo > hi THEN 0
    ELSE IF lo = hi
         THEN IF q[lo].num_sends > 0 THEN Len(q[lo].packet.payload) ELSE 0
         ELSE SentBytes(q, lo, (lo + hi) \div 2)
                + SentBytes(q, ((lo + hi) \div 2) + 1, hi)

\* what write(Rest) would return and push in the current state
WriteRest == Written(packets, Rest, max_window, peer_window)

\* the application holds bytes and write(Rest) would consume at least one
CanWrite == Rest # << >> /\ WriteRest.ret.ok /\ WriteRest.ret.n >= 1

\* C7: in every reachable state a write of a non-empty input either
\* returns would-block and enqueues nothing, or consumes at least one byte;
\* it never returns Ok(0).
C7_WriteNeverOkZero ==
    cursor = Idle =>
      \A k \in WriteLens \ {0} :
        LET w == Written(packets, SubSeq(Rest, 1, k), max_window, peer_window)
        IN  \/ w.ret = WouldBlock /\ w.out = << >>
            \/ w.ret.ok /\ w.ret.n >= 1

\* C8: the payload bytes of the entries sent and not yet removed never
\* exceed min(max_window, peer_window).
C8_WindowCapsBytes ==
    SentBytes(packets, 1, Len(packets)) <= Min(max_window, peer_window)

\* C9: a write(src) returning n appends Data entries to the back of the
\* queue whose payloads, concatenated in queue order, are src[0..n], with
\* n <= len(src); over successive writes of the unconsumed remainder the
\* payloads enqueued so far are the consumed prefix of the input.
C9_WriteCarriesPrefix ==
    /\ [](enqueued = SubSeq(input, 1, consumed))
    /\ [][\A k \in WriteLens :
            write(k) =>
              LET n   == consumed' - consumed
                  old == Len(packets)
              IN  /\ n >= 0 /\ n <= k
                  /\ SubSeq(packets', 1, old) = packets
                  /\ \A i \in (old + 1)..Len(packets') :
                        packets'[i].packet.ty = "Data"
                  /\ Payloads(packets', old + 1) = SubSeq(Rest, 1, n)]_vars

\* a partial write happened and the remainder was written after it
C9_Witness ==
    /\ Len(input) > MAX_DATA_SIZE
    /\ consumed = Len(input)
    /\ enqueued = input
    /\ pushes = 2

\* C10: whenever the application holds bytes that write does not take, a
\* later write takes at least one of them, the driver sending queued entries
\* and the peer's cumulative acks being applied all along.
C10_WriterNotStarved == (Rest # << >> /\ ~CanWrite) ~> CanWrite

\* C11: rtt and rtt_variance change only in a set_their_ack that removes an
\* entry whose num_sends is 1; a set_their_ack removing only entries with
\* another num_sends, and every other operation, leaves both unchanged.
C11_EstimatorOnlyFromSingleSends ==
    [][estimator' # estimator =>
         \E a \in AckNrs :
           /\ set_their_ack(a)
           /\ \E i \in 1..(Len(packets) - Len(packets')) :
                packets[i].num_sends = 1]_vars

\* every entry pushed has been retired and the estimator has moved, so an
\* entry sent once was among them
C11_Witness ==
    /\ rtt > 0
    /\ pushes = MaxPushes
    /\ packets = << >>
    /\ decision.kind = "Stale"

Max(a, b) == IF a >= b THEN a ELSE b

\* C12: in every reachable state socket_timeout() is max(rtt + rtt_variance,
\* 500) milliseconds, so never below 500, and rtt_variance is not negative.
C12_SocketTimeoutFloor ==
    /\ socket_timeout(rtt, rtt_variance) = Max(rtt + rtt_variance, 500)
    /\ socket_timeout(rtt, rtt_variance) >= 500
    /\ rtt_variance >= 0

\* round trips of more than 30 seconds have moved the estimator and the
\* timeout above the floor of 500 ms
C12_Witness ==
    /\ rtt_variance > 0
    /\ socket_timeout(rtt, rtt_variance) = rtt + rtt_variance
    /\ socket_timeout(rtt, rtt_variance) > 500

\* C16: every sample fed to the estimator is at most 30000 ms, and an entry
\* retired more than 30 seconds after its single send gives a sample of
\* exactly 30000 ms.
C16_SampleClamped ==
    [][\A a \in AckNrs :
         set_their_ack(a) =>
           \A i \in 1..(Len(packets) - Len(packets')) :
             Sampled(packets[i]) =>
               LET elapsed == now - packets[i].last_sent_at[1]
               IN  /\ as_ms(elapsed) <= 30000
                   /\ elapsed > 30000 => as_ms(elapsed) = 30000]_vars

\* the estimator after one sample s, as C17 words it
Weighted(est, s) ==
    [rtt          |-> est.rtt + TruncDiv(s - est.rtt, 8),
     rtt_variance |-> est.rtt_variance
                        + TruncDiv(Abs(est.rtt - s) - est.rtt_variance, 4)]

\* x lies between a and b, these included
Between(x, a, b) == (a <= x /\ x <= b) \/ (b <= x /\ x <= a)

\* the estimates after each of the entries q[i..n] sent once, taken in queue
\* order from est, when they are retired at time t
RECURSIVE Estimates(_, _, _, _, _)
Estimates(q, i, n, est, t) ==
    IF i > n THEN << >>
    ELSE IF q[i].num_sends = 1
         THEN LET s == as_ms(t - q[i].last_sent_at[1])
                  e == Weighted(est, s)
              IN  << [old |-> est, sample |-> s, new |-> e] >>
                    \o Estimates(q, i + 1, n, e, t)
         ELSE Estimates(q, i + 1, n, est, t)

\* C17: a set_their_ack leaves the estimator where the updates
\* variance + (|rtt - s| - variance) / 4, with rtt from before the update,
\* and rtt + (s - rtt) / 8 take it, applied once per retired entry sent
\* exactly once, in queue order; each update leaves rtt between its old
\* value and s.
C17_EstimatorFormula ==
    [][\A a \in AckNrs :
         set_their_ack(a) =>
           LET es == Estimates(packets, 1, Len(packets) - Len(packets'),
                               [rtt |-> rtt, rtt_variance |-> rtt_variance],
                               now)
           IN  /\ es # << >> =>
                    /\ rtt' = es[Len(es)].new.rtt
                    /\ rtt_variance' = es[Len(es)].new.rtt_variance
               /\ es = << >> => UNCHANGED estimator
               /\ \A j \in 1..Len(es) :
                    Between(es[j].new.rtt, es[j].old.rtt, es[j].sample)]_vars

\* the estimator has been moved by retired entries, its variance too
C17_Witness ==
    /\ rtt > 0
    /\ rtt_variance > 0
    /\ Len(packets) < pushes

\* k bytes fit in one packet and, with a header, in the window left by the
\* bytes in flight
Fits(k) ==
    /\ k > 0
    /\ k <= MAX_DATA_SIZE
    /\ k + HEADER_LEN <= Min(max_window, peer_window)
                           - SentBytes(packets, 1, Len(packets))

\* C13: a write of an input that fits in one packet and in the window
\* appends exactly one Data entry holding the whole input, whose sequence
\* number is one greater, modulo 65536, than that of the entry enqueued
\* before it (the back of the queue if there is one, the pushes-th entry
\* enqueued in any case), whatever was called in between.
C13_WriteOnePacket ==
    [][\A k \in WriteLens :
         (Fits(k) /\ write(k)) =>
           LET old == Len(packets)
               e   == packets'[old + 1]
           IN  /\ Len(packets') = old + 1
               /\ SubSeq(packets', 1, old) = packets
               /\ e.packet.ty = "Data"
               /\ e.packet.payload = SubSeq(Rest, 1, k)
               /\ consumed' = consumed + k
               /\ pushes > 0 =>
                    e.packet.seq_nr
                      = wrapping_add((init_seq_nr + pushes - 1) % U16, 1)
               /\ old > 0 =>
                    e.packet.seq_nr
                      = wrapping_add(packets[old].packet.seq_nr, 1)]_vars

\* as in connect_echo_close: after the Syn with sequence number 1 and the
\* peer's ack 123, the written bytes go out as one Data packet with
\* sequence number 2 and ack number 123
C13_Witness ==
    /\ init_seq_nr = 1
    /\ cursor.kind = "Entry"
    /\ cursor.packet.ty = "Data"
    /\ cursor.packet.seq_nr = 2
    /\ cursor.packet.ack_nr = 123
    /\ cursor.packet.payload = input
    /\ Len(packets) = 1

\* C14: push of an Ack-only (State) packet panics and enqueues nothing, the
\* State packets next() makes are not enqueued when they are sent, and so
\* no entry of the queue is ever of the Ack-only type.
C14_NoStateEntry ==
    /\ [](\A i \in 1..Len(packets) : packets[i].packet.ty # "State")
    /\ [][push("State") =>
            /\ cursor'.kind = "Panicked"
            /\ packets' = packets
            /\ seq_nr' = seq_nr]_vars
    /\ [][(cursor.kind = "State" /\ sent) => packets' = packets]_vars

\* a pure ack has been made by next() and sent, entries are queued, and a
\* push of a State packet has panicked
C14_Witness ==
    /\ cursor.kind = "Panicked"
    /\ state_seq # None
    /\ packets # << >>

\* next() would return nothing
Quiescent == cursor = Idle /\ NextItem(packets, local_ack, last_ack) = "None"

\* this step is a sent(): a held cursor is given up as sent
Commits ==
    /\ cursor.kind \in {"Entry", "State"}
    /\ cursor' = Idle
    /\ decision'.then = "sent"

\* C15: sent() on an entry or on a synthesized ack sets last_ack to the
\* current local_ack and no other step changes last_ack; once the last unsent
\* entry or the owed ack is committed next() returns nothing, and goes on
\* returning nothing until an entry is added or set_local_ack stores a value
\* other than last_ack; set_local_ack of the value already acknowledged
\* leaves the sender quiescent.
C15_LastAckQuiescence ==
    /\ [][Commits => last_ack' = local_ack]_vars
    /\ [][last_ack' # last_ack => Commits]_vars
    /\ []((decision.then = "sent" /\ Unsent(packets) = {}) => Quiescent)
    /\ [][(Quiescent /\ ~Quiescent') =>
            \/ Len(packets') > Len(packets)
            \/ local_ack' # local_ack /\ local_ack' # last_ack
            \/ cursor'.kind = "Panicked"]_vars
    /\ [][\A val \in LocalAcks :
            (Quiescent /\ set_local_ack(val) /\ last_ack = Some(val)) =>
              Quiescent']_vars

\* as in connect_echo_close: the owed ack 123 went out as a pure ack,
\* last_ack is 123, and next() has returned nothing since
C15_Witness ==
    /\ last_ack = Some(123)
    /\ local_ack = Some(123)
    /\ Len(state_seq) >= 1
    /\ decision.kind = "None"
    /\ Quiescent

\* C18: every Data entry a write appends has a payload of at least one and
\* at most MAX_PACKET_SIZE - HEADER_LEN bytes, and the payloads appended by
\* one call, a header counted with each, stay within the budget
\* min(max_window, peer_window) - in_flight() the call starts from.
C18_PayloadWithinBudget ==
    [][\A k \in WriteLens :
         write(k) =>
           LET old    == Len(packets)
               budget == Min(max_window, peer_window) - in_flight(packets)
           IN  /\ \A i \in (old + 1)..Len(packets') :
                    /\ Len(packets'[i].packet.payload) >= 1
                    /\ Len(packets'[i].packet.payload)
                         <= MAX_PACKET_SIZE - HEADER_LEN
               /\ Len(packets') > old =>
                    Len(Payloads(packets', old + 1))
                      + HEADER_LEN * (Len(packets') - old) <= budget]_vars

\* a write has filled a packet to the largest payload
C18_Witness ==
    \E i \in 1..Len(packets) :
      /\ packets[i].packet.ty = "Data"
      /\ Len(packets[i].packet.payload) = MAX_PACKET_SIZE - HEADER_LEN

\* an entry never sent is queued
Waiting == Unsent(packets) # {}

\* next() has returned an entry of the queue
Offered == cursor.kind = "Entry"

\* C19: the sent entries are a prefix of the queue; num_sends is 0 or 1,
\* and 0 exactly when last_sent_at is absent; next() returns only an entry
\* never sent, the first such in the queue; and, the driver calling next()
\* and sent() again and again, entries never sent do not wait forever: the
\* first of them is offered, unless acks remove them all, and so each in
\* its turn.
C19_OfferedInOrderOnce ==
    /\ [](\A i \in 1..(Len(packets) - 1) :
            packets[i].num_sends = 0 => packets[i + 1].num_sends = 0)
    /\ [](\A i \in 1..Len(packets) :
            /\ packets[i].num_sends \in {0, 1}
            /\ packets[i].num_sends = 0 <=> packets[i].last_sent_at = None)
    /\ [][(cursor = Idle /\ cursor'.kind = "Entry") =>
            /\ packets[cursor'.idx].num_sends = 0
            /\ cursor'.idx = 1 \/ packets[cursor'.idx - 1].num_sends = 1]_vars
    /\ Waiting ~> (Offered \/ ~Waiting)

\* the entries before it sent, the second of the entries written ahead is
\* offered while the third waits
C19_Witness ==
    /\ cursor.kind = "Entry"
    /\ cursor.idx > 1
    /\ packets[cursor.idx - 1].num_sends = 1
    /\ Len(packets) > cursor.idx
    /\ packets[Len(packets)].num_sends = 0

\* C20: the sequence numbers of the queued entries are consecutive modulo
\* 65536 from front to back, the back entry's is seq_nr - 1 modulo 65536,
\* and seq_nr changes only in a push or a write.
C20_ConsecutiveSeqNrs ==
    /\ [](\A i \in 1..(Len(packets) - 1) :
            packets[i + 1].packet.seq_nr
              = wrapping_add(packets[i].packet.seq_nr, 1))
    /\ [](packets # << >> =>
            packets[Len(packets)].packet.seq_nr = wrapping_sub(seq_nr, 1))
    /\ [][seq_nr' # seq_nr =>
            \/ \E ty \in PushTypes : push(ty)
            \/ \E k \in WriteLens : write(k)]_vars

\* the queue runs through 0 and a pure ack has gone out beside it
C20_Witness ==
    /\ Len(packets) = 2
    /\ packets[1].packet.seq_nr = U16 - 1
    /\ packets[2].packet.ty = "Data"
    /\ seq_nr = 1
    /\ state_seq # None

====
